---- MODULE Spec2Model ----
(***************************************************************************)
(* The transcode-or-copy batch pipeline of CONVERTIR_MUSICA_A_MP3/         *)
(* audiomp3.py: convert_or_copy run by a ThreadPoolExecutor, the console   *)
(* driver main_script and the GUI driver WorkerThread.run / MainWindow;    *)
(* and the metadata pipeline of METADATOS_MUSICA/audioanalysis.py.         *)
(*                                                                         *)
(* Text (suffixes, the tool's diagnostic stream, messages) is a sequence   *)
(* of one-character strings, so that str.lower() and the `in` substring    *)
(* test are computed and not assumed.                                      *)
(***************************************************************************)
EXTENDS Integers, Sequences, FiniteSets, TLC

\* ------------------------------------------------------------- bounds
\* Largest input tree (number of regular files) a run is started on.
MaxFiles == 2
\* Largest input tree a WorkerThread of the GUI process is started on.
MaxGuiFiles == 1
\* Number of runs (console processes, or WorkerThreads of one GUI process).
MaxRuns == 2
\* Last second the wall clock reaches.
MaxClock == 1
\* Largest number of processing units os.cpu_count() reports.
MaxCpu == 2
\* Largest music directory (number of files) the metadata run is started on.
MaxMusicFiles == 2
\* Longest tag text handed to normalize_number_field.
MaxFieldLen == 5
\* Longest stream length, in seconds, audio.info reports.
MaxLength == 3
\* Longest record list handed to analyze_library on its own.
MaxRecords == 4

Runs == 1..MaxRuns

\* -------------------------------------------------------------- text
UPPERCASE == <<"A","B","C","D","E","F","G","H","I","J","K","L","M",
               "N","O","P","Q","R","S","T","U","V","W","X","Y","Z">>
LOWERCASE == <<"a","b","c","d","e","f","g","h","i","j","k","l","m",
               "n","o","p","q","r","s","t","u","v","w","x","y","z">>

\* str.lower() on one character.
LowerChar(c) ==
    IF \E i \in DOMAIN UPPERCASE : UPPERCASE[i] = c
    THEN LOWERCASE[CHOOSE i \in DOMAIN UPPERCASE : UPPERCASE[i] = c]
    ELSE c

\* str.lower().
Lower(s) == [i \in DOMAIN s |-> LowerChar(s[i])]

\* `sub in s` for strings.
Contains(sub, s) ==
    \E i \in 0..(Len(s) - Len(sub)) : SubSeq(s, i + 1, i + Len(sub)) = sub

ERROR_WORD == <<"e","r","r","o","r">>

\* ------------------------------------------------------------ numbers
\* Python floats are modelled by the exact fractions they approximate.
RECURSIVE GCD(_, _)
GCD(a, b) == IF b = 0 THEN a ELSE GCD(b, a % b)

Rat(a, b) == LET g == GCD(a, b) IN [num |-> a \div g, den |-> b \div g]

Zero == Rat(0, 1)

RatAdd(x, y) == Rat(x.num * y.den + y.num * x.den, x.den * y.den)

\* int(x) of a non-negative float.
Trunc(x) == x.num \div x.den

RECURSIVE Pow10(_)
Pow10(d) == IF d = 0 THEN 1 ELSE 10 * Pow10(d - 1)

\* round(x, d): to d decimals, a tie going to the even neighbour.
Round(x, d) ==
    LET scaled == x.num * Pow10(d)
        q == scaled \div x.den
        rem == scaled % x.den
        k == IF 2 * rem > x.den THEN q + 1
             ELSE IF 2 * rem = x.den THEN q + (q % 2)
             ELSE q
    IN Rat(k, Pow10(d))

\* What a division by zero raises.
ZeroDivisionError == [raised |-> "ZeroDivisionError"]

\* x / y
TrueDiv(x, y) ==
    IF y.num = 0 THEN ZeroDivisionError ELSE Rat(x.num * y.den, x.den * y.num)

\* ------------------------------------------------------------- paths
\* A path relative to its root: the components without the final suffix
\* (stem) and the final suffix with its dot (Path.suffix).
FLAC == <<".","f","l","a","c">>
WAV  == <<".","w","a","v">>
OGG  == <<".","o","g","g">>
M4A  == <<".","m","4","a">>
MP3  == <<".","m","p","3">>
JPG  == <<".","j","p","g">>
WAV_UPPER == <<".","W","A","V">>

AUDIO_FORMATS == {FLAC, WAV, OGG, M4A}

File(stem, suffix) == [stem |-> stem, suffix |-> suffix]

\* The files an input tree is drawn from: two sources of one destination
\* (a.flac, a.WAV), a pass-through file that is that destination (a.mp3),
\* and an unrelated pass-through file.
Universe ==
    { File(<<"a">>, FLAC), File(<<"a">>, WAV_UPPER),
      File(<<"a">>, MP3),  File(<<"b">>, JPG) }

\* Path.with_suffix
with_suffix(p, suffix) == [p EXCEPT !.suffix = suffix]

\* file_path.suffix.lower() in AUDIO_FORMATS, without the lower(): the
\* classification a case-sensitive comparison would give.
IsAudio_CaseSensitive(f) == f.suffix \in AUDIO_FORMATS

\* ext = file_path.suffix.lower(); ext in AUDIO_FORMATS
IsAudio(f) == Lower(f.suffix) \in AUDIO_FORMATS

\* out_file of a work item, relative to output_dir: the relative path of the
\* source, with the suffix rewritten to .mp3 for a transformable item.
OutFile(f) == IF IsAudio(f) THEN with_suffix(f, MP3) ELSE f

\* The path, relative to input_dir, of the file at p under output_dir when
\* output_dir is the directory "out" of input_dir.
Nest(p) == [p EXCEPT !.stem = <<"out">> \o p.stem]

\* ------------------------------------------------- external collaborators
\* What one call of subprocess.run(["ffmpeg", ...]) can do: found (FALSE:
\* FileNotFoundError is raised, nothing ran), exit status, diagnostic stream
\* (result.stderr), whether that stream holds an error-level message,
\* whether the output file was written.
ToolResult(found, rc, stderr, errorLevel, wrote) ==
    [invoked |-> TRUE, found |-> found, returncode |-> rc, stderr |-> stderr,
     errorLevel |-> errorLevel, wrote |-> wrote]

\* A clean conversion; an error-level message with exit status 0; the word
\* inside an informational line (Input #0, flac, from 'Terror.flac') with
\* exit status 0; a failed conversion that left a partial output file or
\* none; no ffmpeg on the PATH.
ToolOutcomes ==
    { ToolResult(TRUE, 0, <<"s","i","z","e">>, FALSE, TRUE),
      ToolResult(TRUE, 0, <<"E","r","r","o","r">>, TRUE, TRUE),
      ToolResult(TRUE, 0, <<"T","e","r","r","o","r">>, FALSE, TRUE),
      ToolResult(TRUE, 1, <<"f","a","i","l">>, TRUE, TRUE),
      ToolResult(TRUE, 1, <<"f","a","i","l">>, TRUE, FALSE),
      ToolResult(FALSE, 0 - 1, <<>>, FALSE, FALSE) }

\* The tool was not called.
NoTool == [ToolResult(FALSE, 0 - 1, <<>>, FALSE, FALSE) EXCEPT !.invoked = FALSE]

\* str(e) of the OSError of mkdir / copy2 and of the FileNotFoundError of
\* subprocess.run.
EACCES == <<"E","A","C","C","E","S">>
ENOENT == <<"E","N","O","E","N","T">>

VARIABLES
    clock,       \* wall clock, in seconds
    gui,         \* TRUE: the --gui front end; FALSE: main_script
    dirs,        \* which of input_dir / output_dir are set
    outInside,   \* output_dir is the directory "out" of input_dir
    inTree,      \* the regular files under input_dir
    outTree,     \* the files under output_dir: path -> content
    timestamp,   \* the module global `timestamp` of the process of each run
    pc,          \* where the driver of each run is
    all_files,   \* all_files of each run
    task,        \* the futures of each run: file -> state and result
    all_results, \* main_script's all_results of each run
    errores,     \* errores of each run
    n,           \* pbar.n (main_script) / i + 1 (WorkerThread.run)
    logs,        \* the files under LOGS_DIR: path -> content
    start_time,  \* start_time of each run
    pbar,        \* the last progress update of each run: elapsed, speed, eta, postfix
    elapsed_total, \* elapsed_total of each run
    cpu_count,   \* what os.cpu_count() returns on this machine
    mutagen,     \* audioanalysis: mutagen can be imported
    args,        \* audioanalysis: the parsed command line of main
    music_dir,   \* audioanalysis: the files under music_dir, in os.walk order
    mpc,         \* where audioanalysis.main_script is
    usar_ia,     \* audioanalysis: the flag usar_ia
    client,      \* audioanalysis: the enrichment client
    files,       \* audioanalysis: the list `files` of os.walk
    imap,        \* audioanalysis: the pool's tasks, by position in files
    results,     \* audioanalysis: the list `results`
    summary,     \* audioanalysis: the dict `summary`
    response,    \* audioanalysis: what the enrichment request left
    written,     \* audioanalysis: the files under resumen/<timestamp>
    call         \* a call of a helper of get_audio_metadata: arguments, result

transcodeVars == <<clock, gui, dirs, outInside, inTree, outTree, timestamp, pc,
                   all_files, task, all_results, errores, n, logs,
                   start_time, pbar, elapsed_total>>

metaVars == <<mutagen, args, music_dir, mpc, usar_ia, client, files, imap, results, summary, response,
              written, call>>

vars == <<transcodeVars, cpu_count, metaVars>>

\* Python's None, where a record, a list or a text is expected.
None == [none |-> TRUE]

\* What os.cpu_count() returns when the number of processing units is
\* undetectable (None), as a number.
Undetectable == 0

CpuCounts == {Undetectable} \cup (1..MaxCpu)

\* CPU_CORES = os.cpu_count() or 2
CPU_CORES == IF cpu_count = Undetectable THEN 2 ELSE cpu_count

NoTimestamp == 0 - 1

\* ERROR_LOG / SUMMARY_LOG of the process of run r.
ERROR_LOG(r) == [kind |-> "log_errors", ts |-> timestamp[r]]
SUMMARY_LOG(r) == [kind |-> "log_summary", ts |-> timestamp[r]]

\* ------------------------------------------------------------ futures
\* st: queued, ffmpeg / copy (a worker is inside convert_or_copy), done (the
\* future holds a result or, exc, an exception), got (the driver has taken
\* it). status, path, msg: the returned tuple. tool, wrote: what the task did.
Queued == [st |-> "queued", exc |-> FALSE, status |-> "none", path |-> <<>>,
           msg |-> <<>>, tool |-> NoTool, wrote |-> FALSE]

Exists(p) == p \in DOMAIN outTree

\* The content a write by the task of f in run r leaves at a path.
Content(r, f) == [by |-> r, src |-> f]

\* Writing path p under output_dir.
Write(p, c) == [q \in DOMAIN outTree \cup {p} |-> IF q = p THEN c ELSE outTree[q]]

InTreeAfter(p) == IF outInside THEN inTree \cup {Nest(p)} ELSE inTree

Running(r) == {f \in DOMAIN task[r] : task[r][f].st \in {"ffmpeg", "copy"}}

Finished(r, f) == task[r][f].st = "done"

Active(r) == pc[r] \in {"collect", "abort"}

\* ThreadPoolExecutor(max_workers=CPU_CORES): a worker is free.
WorkerFree(r) == Cardinality(Running(r)) < CPU_CORES

SetTask(r, f, t) == task' = [task EXCEPT ![r][f] = t]

Return(r, f, status, path, msg, tool, wrote) ==
    SetTask(r, f, [st |-> "done", exc |-> FALSE, status |-> status,
                   path |-> path, msg |-> msg, tool |-> tool, wrote |-> wrote])

\* convert_or_copy, lines 46-59 and 84: a free worker takes the item, computes
\* out_file, creates its directory (outside the try: a failure raises out
\* of the function) and tests out_file.exists().
Begin(r, f) ==
    /\ Active(r)
    /\ f \in DOMAIN task[r]
    /\ task[r][f].st = "queued"
    /\ WorkerFree(r)
    /\ \E mkdirOk \in BOOLEAN :
         IF ~mkdirOk
         THEN SetTask(r, f, [Queued EXCEPT !.st = "done", !.exc = TRUE, !.msg = EACCES])
         ELSE IF IsAudio(f)
              THEN IF Exists(OutFile(f))
                   THEN Return(r, f, "skipped", OutFile(f), <<>>, NoTool, FALSE)
                   ELSE SetTask(r, f, [Queued EXCEPT !.st = "ffmpeg"])
              ELSE IF ~Exists(OutFile(f))
                   THEN SetTask(r, f, [Queued EXCEPT !.st = "copy"])
                   ELSE Return(r, f, "copied", OutFile(f), <<>>, NoTool, FALSE)
    /\ UNCHANGED <<cpu_count, metaVars, start_time, pbar, elapsed_total, clock, gui, dirs, outInside, inTree, outTree, timestamp, pc,
                   all_files, all_results, errores, n, logs>>

\* The test of line 78 without its second half.
ToolFailed_ExitStatusOnly(o) == o.returncode # 0

\* result.returncode != 0 or "error" in result.stderr.lower()
ToolFailed(o) == o.returncode # 0 \/ Contains(ERROR_WORD, Lower(o.stderr))

\* convert_or_copy, lines 69-80 and 88-89: ffmpeg -i file -b:a 320k
\* -map_metadata 0 out_file -y, then the test of its result.
Ffmpeg(r, f) ==
    /\ f \in DOMAIN task[r]
    /\ task[r][f].st = "ffmpeg"
    /\ \E o \in ToolOutcomes :
         /\ IF o.wrote
            THEN /\ outTree' = Write(OutFile(f), Content(r, f))
                 /\ inTree' = InTreeAfter(OutFile(f))
            ELSE UNCHANGED <<outTree, inTree>>
         /\ IF ~o.found
            THEN Return(r, f, "error", f, ENOENT, o, o.wrote)
            ELSE IF ToolFailed(o)
                 THEN Return(r, f, "error", f, o.stderr, o, o.wrote)
                 ELSE Return(r, f, "converted", OutFile(f), <<>>, o, o.wrote)
    /\ UNCHANGED <<cpu_count, metaVars, start_time, pbar, elapsed_total, clock, gui, dirs, outInside, timestamp, pc, all_files,
                   all_results, errores, n, logs>>

\* convert_or_copy, lines 85-89: shutil.copy2(file_path, out_file).
Copy(r, f) ==
    /\ f \in DOMAIN task[r]
    /\ task[r][f].st = "copy"
    /\ \E copyOk \in BOOLEAN :
         IF copyOk
         THEN /\ outTree' = Write(OutFile(f), Content(r, f))
              /\ inTree' = InTreeAfter(OutFile(f))
              /\ Return(r, f, "copied", OutFile(f), <<>>, NoTool, TRUE)
         ELSE /\ UNCHANGED <<outTree, inTree>>
              /\ Return(r, f, "error", f, EACCES, NoTool, FALSE)
    /\ UNCHANGED <<cpu_count, metaVars, start_time, pbar, elapsed_total, clock, gui, dirs, outInside, timestamp, pc, all_files,
                   all_results, errores, n, logs>>

\* ------------------------------------------------------------ drivers
Ended(r) == pc[r] \in {"done", "crashed", "nofiles"}

NoResults == [converted |-> <<>>, copied |-> <<>>, error |-> <<>>]

\* Path.name
Name(f) == [stem |-> <<f.stem[Len(f.stem)]>>, suffix |-> f.suffix]

\* One console process (python audiomp3.py --input_dir .. --output_dir ..):
\* the module is imported, which sets `timestamp` (line 35) from
\* datetime.now(), and main calls main_script. The clock is read here only;
\* the first process starts at second 0.
Launch ==
    /\ ~gui
    /\ pc[1] = "idle"
    /\ timestamp' = [timestamp EXCEPT ![1] = clock]
    /\ pc' = [pc EXCEPT ![1] = "enum"]
    /\ UNCHANGED <<cpu_count, metaVars, start_time, pbar, elapsed_total, clock, gui, dirs, outInside, inTree, outTree, all_files,
                   task, all_results, errores, n, logs>>

\* The same command line again, once the process before has ended, any
\* number of seconds later (none included).
Relaunch(r) ==
    /\ ~gui
    /\ r > 1
    /\ pc[r] = "idle"
    /\ Ended(r - 1)
    /\ Cardinality(inTree) <= MaxFiles
    /\ \E now \in clock..MaxClock :
         /\ clock' = now
         /\ timestamp' = [timestamp EXCEPT ![r] = now]
    /\ pc' = [pc EXCEPT ![r] = "enum"]
    /\ UNCHANGED <<cpu_count, metaVars, start_time, pbar, elapsed_total, gui, dirs, outInside, inTree, outTree, all_files,
                   task, all_results, errores, n, logs>>

\* MainWindow.select_input_directory
select_input_directory ==
    /\ gui
    /\ ~dirs.input
    /\ dirs' = [dirs EXCEPT !.input = TRUE]
    /\ UNCHANGED <<cpu_count, metaVars, start_time, pbar, elapsed_total, clock, gui, outInside, inTree, outTree, timestamp, pc,
                   all_files, task, all_results, errores, n, logs>>

\* MainWindow.select_output_directory
select_output_directory ==
    /\ gui
    /\ ~dirs.output
    /\ dirs' = [dirs EXCEPT !.output = TRUE]
    /\ UNCHANGED <<cpu_count, metaVars, start_time, pbar, elapsed_total, clock, gui, outInside, inTree, outTree, timestamp, pc,
                   all_files, task, all_results, errores, n, logs>>

\* MainWindow.start_processing: a new WorkerThread is started whenever both
\* directories are set, whatever the earlier WorkerThreads are doing.
start_processing(r) ==
    /\ gui
    /\ dirs.input /\ dirs.output
    /\ pc[r] = "idle"
    /\ \A q \in Runs : q < r => pc[q] # "idle"
    /\ Cardinality(inTree) <= MaxGuiFiles
    /\ pc' = [pc EXCEPT ![r] = "enum"]
    /\ UNCHANGED <<cpu_count, metaVars, start_time, pbar, elapsed_total, clock, gui, dirs, outInside, inTree, outTree, timestamp,
                   all_files, task, all_results, errores, n, logs>>

\* The enumeration without the test of line 115: an empty all_files goes on
\* to the pool.
Enumerate_NoShortCircuit(r) ==
    /\ pc[r] = "enum"
    /\ all_files' = [all_files EXCEPT ![r] = inTree]
    /\ pc' = [pc EXCEPT ![r] = "submit"]
    /\ UNCHANGED <<cpu_count, metaVars, start_time, pbar, elapsed_total, clock, gui, dirs, outInside, inTree, outTree,
                   timestamp, task, all_results, errores, n, logs>>

\* all_files = [f for f in input_dir.rglob("*") if f.is_file()] and the
\* total_files == 0 return. The order of rglob is the file system's, so the
\* list is kept as the set of its elements.
Enumerate(r) ==
    /\ pc[r] = "enum"
    /\ all_files' = [all_files EXCEPT ![r] = inTree]
    /\ pc' = [pc EXCEPT ![r] = IF inTree = {} THEN "nofiles" ELSE "submit"]
    /\ UNCHANGED <<cpu_count, metaVars, start_time, pbar, elapsed_total, clock, gui, dirs, outInside, inTree, outTree, timestamp,
                   task, all_results, errores, n, logs>>

\* start_time = time.time() (lines 122 / 213) and
\* futures = {executor.submit(convert_or_copy, f, ...): f for f in all_files}
Submit(r) ==
    /\ pc[r] = "submit"
    /\ start_time' = [start_time EXCEPT ![r] = clock]
    /\ task' = [task EXCEPT ![r] = [f \in all_files[r] |-> Queued]]
    /\ pc' = [pc EXCEPT ![r] = "collect"]
    /\ UNCHANGED <<cpu_count, metaVars, pbar, elapsed_total, clock, gui, dirs, outInside, inTree, outTree, timestamp,
                   all_files, all_results, errores, n, logs>>

\* The entry with the whole path in place of f_path.name.
ErrorEntry_FullPath(t) == [file |-> t.path, error |-> t.msg]

\* {"file": f_path.name, "error": error_msg}, lines 136-137 and 227.
ErrorEntry(t) == [file |-> Name(t.path), error |-> t.msg]

\* Line 144 without its test of elapsed.
speed_Unguarded(completed, elapsed) == TrueDiv(Rat(completed, 1), Rat(elapsed, 1))

\* speed = pbar.n / elapsed if elapsed > 0 else 0
speed(completed, elapsed) ==
    IF elapsed > 0 THEN TrueDiv(Rat(completed, 1), Rat(elapsed, 1)) ELSE Zero

\* eta = remaining / speed if speed > 0 else 0
eta(remaining, sp) ==
    IF sp.num > 0 THEN TrueDiv(Rat(remaining, 1), sp) ELSE Zero

\* Lines 143-148: the update of the bar after pbar.n became completed, at
\* time now. A division by zero raises before set_postfix is reached.
Progress(r, completed, now) ==
    LET elapsed == now - start_time[r]
        sp == speed(completed, elapsed)
        remaining == Cardinality(all_files[r]) - completed
    IN IF sp = ZeroDivisionError THEN ZeroDivisionError
       ELSE IF eta(remaining, sp) = ZeroDivisionError THEN ZeroDivisionError
       ELSE [elapsed |-> elapsed, speed |-> sp, eta |-> eta(remaining, sp),
             postfix |-> [Velocidad |-> Round(sp, 2),
                          ETA |-> <<Trunc(eta(remaining, sp)) \div 60,
                                    Trunc(eta(remaining, sp)) % 60>>]]

\* main_script, lines 131-148: one iteration of `for future in
\* as_completed(futures)`. future.result() re-raises what the task raised;
\* all_results has no "skipped" key, so that status raises KeyError.
CollectConsole(r) ==
    /\ ~gui
    /\ pc[r] = "collect"
    /\ \E f \in DOMAIN task[r] :
         /\ Finished(r, f)
         /\ LET t == task[r][f] IN
            /\ SetTask(r, f, [t EXCEPT !.st = "got"])
            /\ IF t.exc \/ t.status = "skipped"
               THEN /\ pc' = [pc EXCEPT ![r] = "abort"]
                    /\ UNCHANGED <<all_results, errores, n, pbar>>
               ELSE /\ n' = [n EXCEPT ![r] = @ + 1]
                    /\ pbar' = [pbar EXCEPT ![r] = Progress(r, n[r] + 1, clock)]
                    /\ pc' = IF Progress(r, n[r] + 1, clock) = ZeroDivisionError
                             THEN [pc EXCEPT ![r] = "abort"]
                             ELSE pc
                    /\ IF t.status = "error"
                       THEN /\ all_results' = [all_results EXCEPT
                                  ![r].error = Append(@, ErrorEntry(t))]
                            /\ errores' = [errores EXCEPT
                                  ![r] = Append(@, ErrorEntry(t))]
                       ELSE /\ all_results' = [all_results EXCEPT
                                  ![r][t.status] = Append(@, t.path)]
                            /\ UNCHANGED errores
    /\ UNCHANGED <<cpu_count, metaVars, start_time, elapsed_total, clock, gui, dirs, outInside, inTree, outTree, timestamp,
                   all_files, logs>>

\* WorkerThread.run, lines 221-236: one iteration of the same loop; only
\* errors are kept.
CollectGui(r) ==
    /\ gui
    /\ pc[r] = "collect"
    /\ \E f \in DOMAIN task[r] :
         /\ Finished(r, f)
         /\ LET t == task[r][f] IN
            /\ SetTask(r, f, [t EXCEPT !.st = "got"])
            /\ IF t.exc
               THEN /\ pc' = [pc EXCEPT ![r] = "abort"]
                    /\ UNCHANGED <<errores, n>>
               ELSE /\ pc' = pc
                    /\ n' = [n EXCEPT ![r] = @ + 1]
                    /\ errores' = [errores EXCEPT ![r] =
                          IF t.status = "error" THEN Append(@, ErrorEntry(t)) ELSE @]
    /\ UNCHANGED <<cpu_count, metaVars, start_time, pbar, elapsed_total, clock, gui, dirs, outInside, inTree, outTree, timestamp,
                   all_files, all_results, logs>>

\* ThreadPoolExecutor.__exit__: shutdown(wait=True).
PoolDrained(r) == \A f \in DOMAIN task[r] : task[r][f].st \in {"done", "got"}

\* The report block placed inside the loop body: control reaches it after
\* the first iteration.
LoopExhausted_InLoop(r) == \E f \in DOMAIN task[r] : task[r][f].st = "got"

\* The for loop over as_completed(futures) is exhausted.
LoopExhausted(r) == \A f \in DOMAIN task[r] : task[r][f].st = "got"

\* An exception left the loop: the pool is shut down (waiting for every
\* task, queued ones included) and the exception leaves the driver.
Abort(r) ==
    /\ pc[r] = "abort"
    /\ PoolDrained(r)
    /\ pc' = [pc EXCEPT ![r] = "crashed"]
    /\ UNCHANGED <<cpu_count, metaVars, start_time, pbar, elapsed_total, clock, gui, dirs, outInside, inTree, outTree, timestamp,
                   all_files, task, all_results, errores, n, logs>>

WriteLog(p, c) == [q \in DOMAIN logs \cup {p} |-> IF q = p THEN c ELSE logs[q]]

\* Lines 151-157 / 238-244: the loop and the pool are left, elapsed_total
\* is read, LOGS_DIR is created and ERROR_LOG is opened for writing
\* (truncated).
OpenErrorLog(r) ==
    /\ pc[r] = "collect"
    /\ LoopExhausted(r)
    /\ elapsed_total' = [elapsed_total EXCEPT ![r] = clock - start_time[r]]
    /\ logs' = WriteLog(ERROR_LOG(r), [by |-> r, closed |-> FALSE, data |-> <<>>])
    /\ pc' = [pc EXCEPT ![r] = "errlog"]
    /\ UNCHANGED <<cpu_count, metaVars, start_time, pbar, clock, gui, dirs, outInside, inTree, outTree, timestamp,
                   all_files, task, all_results, errores, n>>

\* json.dump(errores, f) and the end of the with block.
DumpErrorLog(r) ==
    /\ pc[r] = "errlog"
    /\ logs' = WriteLog(ERROR_LOG(r), [by |-> r, closed |-> TRUE, data |-> errores[r]])
    /\ pc' = [pc EXCEPT ![r] = "sumlog_closed"]
    /\ UNCHANGED <<cpu_count, metaVars, start_time, pbar, elapsed_total, clock, gui, dirs, outInside, inTree, outTree, timestamp,
                   all_files, task, all_results, errores, n>>

\* open(SUMMARY_LOG, "w")
OpenSummaryLog(r) ==
    /\ pc[r] = "sumlog_closed"
    /\ logs' = WriteLog(SUMMARY_LOG(r), [by |-> r, closed |-> FALSE, data |-> <<>>])
    /\ pc' = [pc EXCEPT ![r] = "sumlog"]
    /\ UNCHANGED <<cpu_count, metaVars, start_time, pbar, elapsed_total, clock, gui, dirs, outInside, inTree, outTree, timestamp,
                   all_files, task, all_results, errores, n>>

\* total_tracks (line 152)
total_tracks(r) ==
    Len(all_results[r].converted) + Len(all_results[r].copied)
        + Len(all_results[r].error)

\* round(total / elapsed_total, 2) if elapsed_total > 0 else 0
average_speed(total, elapsed) ==
    IF elapsed > 0 THEN Round(TrueDiv(Rat(total, 1), Rat(elapsed, 1)), 2) ELSE Zero

\* The summary of main_script (lines 162-169) and of WorkerThread.run
\* (lines 250-255).
Summary(r) ==
    IF gui
    THEN [failed |-> errores[r],
          total_files_processed |-> Cardinality(all_files[r]),
          total_time_sec |-> Trunc(Rat(elapsed_total[r], 1)),
          average_speed_tracks_per_sec |->
              average_speed(Cardinality(all_files[r]), elapsed_total[r])]
    ELSE [converted |-> all_results[r].converted,
          copied |-> all_results[r].copied,
          failed |-> all_results[r].error,
          total_files_processed |-> total_tracks(r),
          total_time_sec |-> Trunc(Rat(elapsed_total[r], 1)),
          average_speed_tracks_per_sec |->
              average_speed(total_tracks(r), elapsed_total[r])]

\* The summary could not be built: the with block is left by the exception
\* and the file stays as open(.., "w") made it.
SummaryRaises(r) == Summary(r).average_speed_tracks_per_sec = ZeroDivisionError

\* json.dump(summary, f) and the end of the with block.
DumpSummaryLog(r) ==
    /\ pc[r] = "sumlog"
    /\ IF SummaryRaises(r)
       THEN /\ logs' = WriteLog(SUMMARY_LOG(r), [by |-> r, closed |-> TRUE, data |-> <<>>])
            /\ pc' = [pc EXCEPT ![r] = "crashed"]
       ELSE /\ logs' = WriteLog(SUMMARY_LOG(r), [by |-> r, closed |-> TRUE, data |-> Summary(r)])
            /\ pc' = [pc EXCEPT ![r] = "done"]
    /\ UNCHANGED <<cpu_count, metaVars, start_time, pbar, elapsed_total, clock, gui, dirs, outInside, inTree, outTree, timestamp,
                   all_files, task, all_results, errores, n>>

\* What all_results[status] raises for a status that is no key of it.
KeyError == [raised |-> "KeyError"]

\* The orders in which as_completed can yield the futures of run r.
CompletionOrders(r) ==
    {o \in [1..Cardinality(DOMAIN task[r]) -> DOMAIN task[r]] :
        \A i, j \in DOMAIN o : i # j => o[i] # o[j]}

RECURSIVE ConsoleResults(_, _)
\* main_script, lines 119-139: all_results once the loop has taken the
\* futures of run r in the order o, or the exception that left the loop.
ConsoleResults(r, o) ==
    IF o = <<>> THEN NoResults
    ELSE LET before == ConsoleResults(r, SubSeq(o, 1, Len(o) - 1))
             t == task[r][o[Len(o)]]
         IN IF before = KeyError \/ t.exc \/ t.status \notin DOMAIN NoResults
            THEN KeyError
            ELSE IF t.status = "error"
            THEN [before EXCEPT !.error = Append(@, ErrorEntry(t))]
            ELSE [before EXCEPT ![t.status] = Append(@, t.path)]

\* main_script, lines 152-166: the summary built from all_results.
ConsoleSummary(results_) ==
    [converted |-> results_.converted,
     copied |-> results_.copied,
     failed |-> results_.error,
     total_files_processed |->
         Len(results_.converted) + Len(results_.copied) + Len(results_.error)]

\* time.time() between two reads of it: a second passes.
Tick ==
    /\ clock < MaxClock
    /\ clock' = clock + 1
    /\ UNCHANGED <<cpu_count, metaVars, start_time, pbar, elapsed_total, gui, dirs, outInside,
                   inTree, outTree, timestamp, pc, all_files, task, all_results,
                   errores, n, logs>>

\* =====================================================================
\* The metadata pipeline of METADATOS_MUSICA/audioanalysis.py.
\* =====================================================================

\* --------------------------------------------------------- tag text
\* A character for which str.isdigit() holds although it is no ASCII digit.
SUPERSCRIPT_TWO == "SUPERSCRIPT TWO"

ASCII_DIGITS == {"0", "1", "2", "3", "4", "5", "6", "7", "8", "9"}

\* str.isdigit(): non-empty and every character is a digit character.
isdigit(s) ==
    /\ Len(s) > 0
    /\ \A i \in 1..Len(s) : s[i] \in ASCII_DIGITS \cup {SUPERSCRIPT_TWO}

\* str.split(sep)
RECURSIVE split(_, _)
split(s, sep) ==
    IF \E i \in 1..Len(s) : s[i] = sep
    THEN LET i == CHOOSE k \in 1..Len(s) :
                    s[k] = sep /\ \A j \in 1..(k - 1) : s[j] # sep
         IN <<SubSeq(s, 1, i - 1)>> \o split(SubSeq(s, i + 1, Len(s)), sep)
    ELSE <<s>>

\* normalize_number_field without the test len(parts) == 2.
normalize_number_field_AnyParts(field) ==
    IF field = <<>> THEN <<>>
    ELSE IF \E i \in 1..Len(field) : field[i] = "/"
         THEN LET parts == split(field, "/")
              IN IF isdigit(parts[1]) /\ isdigit(parts[2]) THEN field ELSE <<>>
         ELSE IF isdigit(field) THEN field ELSE <<>>

\* normalize_number_field, lines 110-126.
normalize_number_field(field) ==
    IF field = <<>> THEN <<>>
    ELSE IF \E i \in 1..Len(field) : field[i] = "/"
         THEN LET parts == split(field, "/")
              IN IF Len(parts) = 2 /\ isdigit(parts[1]) /\ isdigit(parts[2])
                 THEN field
                 ELSE <<>>
         ELSE IF isdigit(field) THEN field ELSE <<>>

\* ------------------------------------------------ duration and bitrate
\* What os.path.getsize leaves when it raises.
OSError == 0 - 1

\* The fallback bitrate of line 99, in kbps.
estimated_bitrate == 192

\* get_duration_and_bitrate with the fallback tier returning what it read.
get_duration_and_bitrate_NoFallback(info, file_size) ==
    IF info = None THEN [duration |-> Zero, bitrate |-> 0]
    ELSE [duration |-> IF "length" \in DOMAIN info THEN info.length ELSE Zero,
          bitrate |-> IF "bitrate" \in DOMAIN info
                        THEN info.bitrate \div 1000 ELSE 0]

\* get_duration_and_bitrate, lines 71-105. info: audio.info, None or the
\* attributes it has among length (seconds) and bitrate (bits per second);
\* file_size: what os.path.getsize returns, or OSError.
get_duration_and_bitrate(info, file_size) ==
    IF info = None THEN [duration |-> Zero, bitrate |-> 0]
    ELSE LET duration == IF "length" \in DOMAIN info THEN info.length ELSE Zero
             bitrate == IF "bitrate" \in DOMAIN info
                        THEN info.bitrate \div 1000 ELSE 0
         IN IF bitrate = 0 /\ duration.num > 0
            THEN [duration |-> duration,
                  bitrate |-> IF file_size = OSError THEN 0
                              ELSE Trunc(Rat(file_size * 8 * duration.den,
                                             duration.num * 1000))]
            ELSE IF duration.num = 0 /\ bitrate > 0
            THEN [duration |-> IF file_size = OSError THEN Zero
                               ELSE Rat(file_size * 8, bitrate * 1000),
                  bitrate |-> bitrate]
            ELSE IF duration.num = 0 /\ bitrate = 0
            THEN IF file_size = OSError
                 THEN [duration |-> Zero, bitrate |-> 0]
                 ELSE [duration |-> Rat(file_size * 8, estimated_bitrate * 1000),
                       bitrate |-> estimated_bitrate]
            ELSE [duration |-> duration, bitrate |-> bitrate]

\* ------------------------------------------------------- audio files
AAC == <<".","a","a","c">>
MP3_UPPER == <<".","M","P","3">>

\* audio_extensions of main_script, line 258.
audio_extensions == {MP3, FLAC, WAV, M4A, AAC, OGG}

\* str.endswith
endswith(s, suffix) ==
    /\ Len(suffix) <= Len(s)
    /\ SubSeq(s, Len(s) - Len(suffix) + 1, Len(s)) = suffix

ROCK == <<"R","o","c","k">>
POP == <<"P","o","p">>

\* What mutagen finds in a file. opens: "ok", "None" (File() recognises no
\* container and returns None) or "raise" (the file cannot be opened, or the
\* tag parser raises). tags: audio.tags, None or key -> the texts of the
\* value. info: audio.info, None or the attributes it has. size: what
\* os.path.getsize returns.
Audio(stem, suffix, opens, tags, info, size) ==
    [path |-> File(stem, suffix), opens |-> opens, tags |-> tags,
     info |-> info, size |-> size]

\* The files a music directory is drawn from: a fully tagged file; a
\* Vorbis-tagged file whose stream reports no bitrate and whose size gives
\* an estimate of 0 kbps; an untagged file whose stream reports neither
\* length nor bitrate; a file of the second genre; a file in which no
\* container is recognised; a file whose parser raises; a cover image.
MusicUniverse ==
    { Audio(<<"1">>, MP3_UPPER, "ok",
            [TIT2 |-> <<<<"T">>>>, TPE1 |-> <<<<"A">>>>, TPE2 |-> <<<<"A">>>>,
             TALB |-> <<<<"X">>>>, TRCK |-> <<<<"3","/","1","2">>>>,
             TPOS |-> <<<<"1">>>>, TCON |-> <<ROCK>>],
            [length |-> Rat(3, 1), bitrate |-> 320000], 120000),
      Audio(<<"2">>, FLAC, "ok",
            [artist |-> <<<<"B">>>>, album |-> <<<<"Y">>>>,
             tracknumber |-> <<<<"a","/","3">>>>, discnumber |-> <<>>,
             genre |-> <<POP>>],
            [length |-> Rat(3, 1), bitrate |-> 0], 100),
      Audio(<<"3">>, OGG, "ok", None,
            [k \in {} |-> 0], 12500),
      Audio(<<"4">>, M4A, "ok",
            [artist |-> <<<<"A">>>>, genre |-> <<POP>>],
            [length |-> Rat(1, 2), bitrate |-> 128999], 8000),
      Audio(<<"5">>, MP3, "None", None, None, 0),
      Audio(<<"6">>, WAV, "raise", None, None, 0),
      Audio(<<"7">>, JPG, "None", None, None, 0) }

\* get_tag, lines 35-56: the first text of the first key whose value is not
\* empty.
RECURSIVE get_tag(_, _)
get_tag(tags, keys) ==
    IF keys = <<>> THEN <<>>
    ELSE IF Head(keys) \in DOMAIN tags /\ tags[Head(keys)] # <<>>
         THEN tags[Head(keys)][1]
         ELSE get_tag(tags, Tail(keys))

\* get_audio_metadata, lines 15-150. hasMutagen: the import of line 20
\* succeeds.
get_audio_metadata(hasMutagen, f) ==
    IF ~hasMutagen \/ f.opens # "ok" THEN None
    ELSE LET tags == IF f.tags = None THEN [k \in {} |-> <<>>] ELSE f.tags
             db == get_duration_and_bitrate(f.info, f.size)
         IN [path |-> f.path,
             title |-> get_tag(tags, <<"title", "TIT2">>),
             artist |-> get_tag(tags, <<"artist", "TPE1">>),
             album_artist |-> get_tag(tags, <<"albumartist", "TPE2">>),
             album |-> get_tag(tags, <<"album", "TALB">>),
             year |-> get_tag(tags, <<"date", "year", "TDRC", "TYER">>),
             track |-> normalize_number_field(get_tag(tags, <<"tracknumber", "TRCK">>)),
             disc |-> normalize_number_field(get_tag(tags, <<"discnumber", "TPOS">>)),
             publisher |-> get_tag(tags, <<"publisher", "TPUB">>),
             composer |-> get_tag(tags, <<"composer", "TCOM">>),
             genre |-> get_tag(tags, <<"genre", "TCON">>),
             duration |-> db.duration,
             bitrate |-> db.bitrate]

\* ------------------------------------------------------ analyze_library
RECURSIVE SumOver(_, _)
\* sum(m[field] for m in metadata_list), over integers.
SumOver(s, field) ==
    IF s = <<>> THEN 0 ELSE s[1][field] + SumOver(Tail(s), field)

RECURSIVE SumDuration(_)
\* sum(m['duration'] for m in metadata_list)
SumDuration(s) ==
    IF s = <<>> THEN Zero ELSE RatAdd(s[1].duration, SumDuration(Tail(s)))

\* m['bitrate'] > 0
Positive(m) == m.bitrate > 0

\* seconds_to_readable, lines 153-167: the parts of the text, in order.
seconds_to_readable(seconds) ==
    LET t == Trunc(seconds)
        days == t \div 86400
        hours == (t % 86400) \div 3600
        minutes == (t % 3600) \div 60
        parts == (IF days > 0 THEN <<[n |-> days, unit |-> "dias"]>> ELSE <<>>)
                 \o (IF hours > 0 THEN <<[n |-> hours, unit |-> "horas"]>> ELSE <<>>)
                 \o (IF minutes > 0 THEN <<[n |-> minutes, unit |-> "minutos"]>> ELSE <<>>)
    IN IF parts # <<>> THEN parts ELSE <<[n |-> 0, unit |-> "minutos"]>>

\* time.strftime("%H:%M:%S", time.gmtime(t)) and "%M:%S".
strftime_HMS(t) ==
    <<(Trunc(t) \div 3600) % 24, (Trunc(t) \div 60) % 60, Trunc(t) % 60>>
strftime_MS(t) == <<(Trunc(t) \div 60) % 60, Trunc(t) % 60>>

\* most_common with equal counts going to the genre met last.
most_common_Last(genres) ==
    LET Count(g) == Cardinality({i \in DOMAIN genres : genres[i] = g})
        best == CHOOSE i \in DOMAIN genres :
                    /\ \A j \in DOMAIN genres : Count(genres[j]) <= Count(genres[i])
                    /\ \A j \in (i + 1)..Len(genres) :
                         Count(genres[j]) < Count(genres[i])
    IN genres[best]

\* Counter(genres).most_common(1)[0][0]: the largest count; among equal
\* counts the genre met first.
most_common(genres) ==
    LET Count(g) == Cardinality({i \in DOMAIN genres : genres[i] = g})
        First(g) == CHOOSE i \in DOMAIN genres :
                        genres[i] = g /\ \A j \in 1..(i - 1) : genres[j] # g
        best == CHOOSE i \in DOMAIN genres :
                    /\ First(genres[i]) = i
                    /\ \A j \in DOMAIN genres :
                         \/ Count(genres[j]) < Count(genres[i])
                         \/ Count(genres[j]) = Count(genres[i]) /\ First(genres[j]) >= i
    IN genres[best]

\* Line 180 without its test of count.
bitrate_avg_Unguarded(metadata_list) ==
    LET count == Len(metadata_list)
        total_bitrate == SumOver(SelectSeq(metadata_list, Positive), "bitrate")
    IN TrueDiv(Rat(total_bitrate, 1), Rat(count, 1))

\* total_bitrate / count if count else 0, lines 179-180.
bitrate_avg(metadata_list) ==
    LET count == Len(metadata_list)
        total_bitrate == SumOver(SelectSeq(metadata_list, Positive), "bitrate")
    IN IF count # 0 THEN TrueDiv(Rat(total_bitrate, 1), Rat(count, 1)) ELSE Zero

\* total_duration / count if count else 0, line 181.
duration_avg(metadata_list) ==
    LET count == Len(metadata_list)
        total == SumDuration(metadata_list)
    IN IF count # 0 THEN TrueDiv(total, Rat(count, 1)) ELSE Zero

NonEmpty(s, field) == {s[i][field] : i \in {j \in DOMAIN s : s[j][field] # <<>>}}

HasGenre(m) == m.genre # <<>>

\* analyze_library, lines 169-211: the summary, or the exception a
\* division raises.
analyze_library(metadata_list, elapsed_time) ==
    LET genres == [i \in DOMAIN SelectSeq(metadata_list, HasGenre) |->
                       SelectSeq(metadata_list, HasGenre)[i].genre]
    IN IF ZeroDivisionError \in {bitrate_avg(metadata_list), duration_avg(metadata_list)}
       THEN ZeroDivisionError
       ELSE
       [archivos_analizados |-> Len(metadata_list),
        tiempo_total_segundos |-> Round(elapsed_time, 2),
        tiempo_total_formateado |-> strftime_HMS(elapsed_time),
        bitrate_promedio_kbps |-> Round(bitrate_avg(metadata_list), 1),
        duracion_promedio_segundos |-> Round(duration_avg(metadata_list), 2),
        duracion_promedio_formateada |-> strftime_MS(duration_avg(metadata_list)),
        artistas_unicos |-> Cardinality(NonEmpty(metadata_list, "artist")),
        album_artistas_unicos |-> Cardinality(NonEmpty(metadata_list, "album_artist")),
        albumes_unicos |-> Cardinality(NonEmpty(metadata_list, "album")),
        tiempo_total_escucha |-> seconds_to_readable(SumDuration(metadata_list)),
        genero_predominante |-> IF genres # <<>> THEN most_common(genres) ELSE <<>>]

\* ---------------------------------------------------------- main_script
\* Text of the enrichment, as the sequence of its words.
SIN_RESPUESTA_ERROR == <<"Sin", "respuesta", "IA", "debido", "a", "un", "error.">>
SIN_RESPUESTA == <<"Sin", "respuesta", "IA.">>

\* What client.models.generate_content can do: raise, or return a response
\* whose text is None (<<>>), or <<t>> for the text t: empty or an analysis.
Response(raises, text) == [raises |-> raises, text |-> text]
RequestOutcomes ==
    {Response(TRUE, <<>>), Response(FALSE, <<>>), Response(FALSE, <<<<>>>>),
     Response(FALSE, <<<<"Analisis">>>>)}

\* genai.Client(api_key=...)
Client == [models |-> "gemini-2.5-flash"]

\* elapsed_time, in seconds.
ElapsedTimes == {Rat(k, 1) : k \in 0..MaxClock} \cup {Rat(1, 8)}

\* The directories main_script can be started on: at most MaxMusicFiles
\* files, in the order os.walk yields them.
MusicDirs ==
    {d \in UNION {[1..k -> MusicUniverse] : k \in 0..MaxMusicFiles} :
        \A i, j \in DOMAIN d : i # j => d[i] # d[j]}

\* f.lower().endswith(audio_extensions), line 264.
IsAudioName(f) ==
    \E ext \in audio_extensions : endswith(Lower(f.path.stem \o f.path.suffix), ext)

\* Lines 214-248: the imports, and the enrichment client when usar_ia.
\* tqdm, genai: the import succeeds; key: GEMINI_API_KEY is set; made:
\* what genai.Client(...) does.
Setup ==
    /\ mpc = "start"
    /\ \E tqdm \in BOOLEAN, genai \in BOOLEAN, key \in BOOLEAN,
          made \in {"client", "ValueError", "Exception"} :
         IF ~tqdm
         THEN mpc' = "returned" /\ UNCHANGED <<usar_ia, client>>
         ELSE IF ~usar_ia
         THEN mpc' = "walk" /\ UNCHANGED <<usar_ia, client>>
         ELSE IF ~genai \/ made = "ValueError"
         THEN mpc' = "walk" /\ usar_ia' = FALSE /\ UNCHANGED client
         ELSE IF made = "Exception"
         THEN mpc' = "raised_client" /\ usar_ia' = key /\ UNCHANGED client
         ELSE mpc' = "walk" /\ usar_ia' = key /\ client' = Client
    /\ UNCHANGED <<transcodeVars, cpu_count, mutagen, args, music_dir, files, imap,
                   results, summary, response, written, call>>

\* Lines 250-268: the walk.
Walk ==
    /\ mpc = "walk"
    /\ files' = SelectSeq(music_dir, IsAudioName)
    /\ mpc' = "pool"
    /\ UNCHANGED <<transcodeVars, cpu_count, mutagen, args, music_dir, usar_ia,
                   client, imap, results, summary, response, written, call>>

\* Line 272, Pool(processes=cpu_count()) and pool.imap(get_audio_metadata,
\* files): multiprocessing.cpu_count() raises NotImplementedError when the
\* count is undetectable.
CreatePool ==
    /\ mpc = "pool"
    /\ IF cpu_count = Undetectable
       THEN mpc' = "raised_cpu_count" /\ UNCHANGED imap
       ELSE mpc' = "imap" /\ imap' = [i \in DOMAIN files |-> "queued"]
    /\ UNCHANGED <<transcodeVars, cpu_count, mutagen, args, music_dir, usar_ia,
                   client, files, results, summary, response, written, call>>

Busy == {i \in DOMAIN imap : imap[i] = "running"}

\* imap: the results come in the order of files; the next one is that of
\* the first file not handed over yet.
NextTask == {i \in DOMAIN imap : imap[i] = "done" /\ i = Len(results) + 1}

\* Pool(processes=cpu_count()): a process is free.
ProcessFree == Cardinality(Busy) < cpu_count

\* A pool process takes the next task of the queue.
StartTask(i) ==
    /\ mpc = "imap"
    /\ imap[i] = "queued"
    /\ \A j \in 1..(i - 1) : imap[j] # "queued"
    /\ ProcessFree
    /\ imap' = [imap EXCEPT ![i] = "running"]
    /\ UNCHANGED <<transcodeVars, cpu_count, mutagen, args, music_dir, mpc, usar_ia,
                   client, files, results, summary, response, written, call>>

\* get_audio_metadata(files[i]) returns in its process.
EndTask(i) ==
    /\ mpc = "imap"
    /\ imap[i] = "running"
    /\ imap' = [imap EXCEPT ![i] = "done"]
    /\ UNCHANGED <<transcodeVars, cpu_count, mutagen, args, music_dir, mpc, usar_ia,
                   client, files, results, summary, response, written, call>>

\* list(tqdm(pool.imap(...))) takes one more result.
NextResult ==
    /\ mpc = "imap"
    /\ \E i \in NextTask :
         /\ results' = Append(results, get_audio_metadata(mutagen, files[i]))
         /\ imap' = [imap EXCEPT ![i] = "got"]
    /\ UNCHANGED <<transcodeVars, cpu_count, mutagen, args, music_dir, mpc, usar_ia,
                   client, files, summary, response, written, call>>

\* The filter of line 275 keeping every element.
NotNone_KeepAll(x) == TRUE

\* r is not None
NotNone(x) == x # None

\* Lines 272-283: the list is complete, the pool is left, and
\* results = [r for r in results if r is not None].
FilterNone ==
    /\ mpc = "imap"
    /\ Len(results) = Len(files)
    /\ results' = SelectSeq(results, NotNone)
    /\ mpc' = "analyze"
    /\ UNCHANGED <<transcodeVars, cpu_count, mutagen, args, music_dir, usar_ia,
                   client, files, imap, summary, response, written, call>>

\* Line 286: an exception of analyze_library leaves main_script.
Analyze ==
    /\ mpc = "analyze"
    /\ \E elapsed_time \in ElapsedTimes :
         IF analyze_library(results, elapsed_time) = ZeroDivisionError
         THEN mpc' = "raised_division" /\ UNCHANGED summary
         ELSE /\ summary' = analyze_library(results, elapsed_time)
              /\ mpc' = IF usar_ia THEN "ia" ELSE "summary_file"
    /\ UNCHANGED <<transcodeVars, cpu_count, mutagen, args, music_dir, usar_ia,
                   client, files, imap, results, response, written, call>>

\* The assignment of the enrichment text landing on a statistic as well.
WithAnalisis_Overwrites(s, texto_ia) ==
    [s EXCEPT !.genero_predominante = texto_ia] @@ [analisis_ia |-> texto_ia]

\* summary["analisis_ia"] = texto_ia
WithAnalisis(s, texto_ia) == s @@ [analisis_ia |-> texto_ia]

\* Lines 288-336: one request, and what is made of its answer.
Enrich ==
    /\ mpc = "ia"
    /\ \E o \in RequestOutcomes :
         LET answer == IF client = None \/ o.raises
                       THEN [str |-> SIN_RESPUESTA_ERROR]
                       ELSE [text |-> o.text]
         IN /\ response' = [calls |-> IF client = None THEN response.calls
                                      ELSE response.calls + 1,
                            value |-> answer]
            /\ IF "text" \in DOMAIN answer /\ answer.text # <<>>
               THEN /\ summary' = WithAnalisis(summary, answer.text[1])
                    /\ written' = written @@ [analisis_ia |-> answer.text[1]]
               ELSE IF "str" \in DOMAIN answer
               THEN /\ summary' = WithAnalisis(summary, answer.str)
                    /\ UNCHANGED written
               ELSE /\ summary' = WithAnalisis(summary, SIN_RESPUESTA)
                    /\ UNCHANGED written
    /\ mpc' = "summary_file"
    /\ UNCHANGED <<transcodeVars, cpu_count, mutagen, args, music_dir, usar_ia,
                   client, files, imap, results, call>>

\* Lines 339-340: json.dump(summary, f).
WriteSummary ==
    /\ mpc = "summary_file"
    /\ written' = written @@ [summary_file |-> summary]
    /\ mpc' = "output_file"
    /\ UNCHANGED <<transcodeVars, cpu_count, mutagen, args, music_dir, usar_ia,
                   client, files, imap, results, summary, response, call>>

\* Lines 343-344: json.dump(results, f).
WriteOutput ==
    /\ mpc = "output_file"
    /\ written' = written @@ [output_file |-> results]
    /\ mpc' = "done"
    /\ UNCHANGED <<transcodeVars, cpu_count, mutagen, args, music_dir, usar_ia,
                   client, files, imap, results, summary, response, call>>

\* ------------------------------------------------- calls of the helpers
\* The characters a tag text is made of.
FieldChars == {"0", "1", "/", "a", "-", SUPERSCRIPT_TWO}

\* The values get_tag hands to normalize_number_field.
Fields == UNION {[1..k -> FieldChars] : k \in 0..MaxFieldLen}

\* track = normalize_number_field(track), lines 128-129.
CallNormalize ==
    /\ call # None
    /\ call.fn = "normalize_number_field"
    /\ ~call.returned
    /\ call' = [call EXCEPT !.returned = TRUE,
                            !.ret = normalize_number_field(call.field)]
    /\ UNCHANGED <<transcodeVars, cpu_count, mutagen, args, music_dir, mpc, usar_ia,
                   client, files, imap, results, summary, response, written>>

\* What audio.info can hold.
Lengths == {Rat(k, 1) : k \in 0..MaxLength} \cup {Rat(1, 2)}
Bitrates == {0, 999, 128000, 320000}
Infos ==
    {None, [k \in {} |-> 0]}
    \cup [length : Lengths] \cup [bitrate : Bitrates]
    \cup [length : Lengths, bitrate : Bitrates]

\* What os.path.getsize can return.
Sizes == {OSError, 0, 100, 12500, 120000}

\* duration, bitrate = get_duration_and_bitrate(audio, filepath), line 106.
CallDuration ==
    /\ call # None
    /\ call.fn = "get_duration_and_bitrate"
    /\ ~call.returned
    /\ call' = [call EXCEPT !.returned = TRUE,
                            !.ret = get_duration_and_bitrate(call.info, call.file_size)]
    /\ UNCHANGED <<transcodeVars, cpu_count, mutagen, args, music_dir, mpc, usar_ia,
                   client, files, imap, results, summary, response, written>>

JAZZ == <<"J","a","z","z">>

\* m['genre'] of a record: no genre, or one of three.
Genres == {<<>>, ROCK, POP, JAZZ}

\* A record of get_audio_metadata (lines 131-146) with the genre g.
Metadata(g) ==
    [path |-> File(<<"1">>, MP3), title |-> <<"T">>, artist |-> <<"A">>,
     album_artist |-> <<>>, album |-> <<"X">>, year |-> <<>>, track |-> <<"1">>,
     disc |-> <<>>, publisher |-> <<>>, composer |-> <<>>, genre |-> g,
     duration |-> Rat(3, 1), bitrate |-> estimated_bitrate]

\* The record lists analyze_library is called on.
MetadataLists ==
    UNION {[1..k -> {Metadata(g) : g \in Genres}] : k \in 0..MaxRecords}

\* summary = analyze_library(results, elapsed_time), line 286.
CallAnalyze ==
    /\ call # None
    /\ call.fn = "analyze_library"
    /\ ~call.returned
    /\ call' = [call EXCEPT !.returned = TRUE,
                            !.ret = analyze_library(call.metadata_list,
                                                    call.elapsed_time)]
    /\ UNCHANGED <<transcodeVars, cpu_count, mutagen, args, music_dir, mpc, usar_ia,
                   client, files, imap, results, summary, response, written>>

\* ------------------------------------------------------ specifications
\* The trees a run can find: at most MaxFiles files under input_dir, any of
\* the destinations already under output_dir, output_dir outside input_dir
\* or inside it.
InitTrees(maxFiles) ==
    /\ outInside \in BOOLEAN
    /\ \E base \in SUBSET Universe, pre \in SUBSET {OutFile(f) : f \in Universe} :
         /\ inTree = IF outInside THEN base \cup {Nest(p) : p \in pre} ELSE base
         /\ outTree = [p \in pre |-> Content(0, p)]
    /\ Cardinality(inTree) <= maxFiles

\* main_script of audioanalysis.py is not running.
MainScriptOff ==
    /\ mutagen = TRUE
    /\ args = [usar_ia |-> FALSE]
    /\ music_dir = <<>>
    /\ mpc = "off"
    /\ usar_ia = FALSE
    /\ client = None
    /\ files = <<>>
    /\ imap = <<>>
    /\ results = <<>>
    /\ summary = None
    /\ response = [calls |-> 0, value |-> None]
    /\ written = [p \in {} |-> None]

\* Nothing of audioanalysis.py is running.
MetaOff == MainScriptOff /\ call = None

InitRuns ==
    /\ cpu_count \in CpuCounts
    /\ MetaOff
    /\ clock = 0
    /\ pc = [r \in Runs |-> "idle"]
    /\ all_files = [r \in Runs |-> {}]
    /\ task = [r \in Runs |-> [f \in {} |-> Queued]]
    /\ all_results = [r \in Runs |-> NoResults]
    /\ errores = [r \in Runs |-> <<>>]
    /\ n = [r \in Runs |-> 0]
    /\ logs = [p \in {} |-> <<>>]
    /\ start_time = [r \in Runs |-> NoTimestamp]
    /\ pbar = [r \in Runs |-> None]
    /\ elapsed_total = [r \in Runs |-> NoTimestamp]

\* Console: no process has been started yet.
Init ==
    /\ gui = FALSE
    /\ dirs = [input |-> TRUE, output |-> TRUE]
    /\ timestamp = [r \in Runs |-> NoTimestamp]
    /\ InitTrees(MaxFiles)
    /\ InitRuns

\* GUI: the process has imported the module (which set `timestamp`) and
\* shows the window; no directory is selected.
InitGui ==
    /\ gui = TRUE
    /\ dirs = [input |-> FALSE, output |-> FALSE]
    /\ timestamp = [r \in Runs |-> 0]
    /\ InitTrees(MaxGuiFiles)
    /\ InitRuns

Worker(r) == \E f \in all_files[r] : Begin(r, f) \/ Ffmpeg(r, f) \/ Copy(r, f)

Reporter(r) ==
    OpenErrorLog(r) \/ DumpErrorLog(r) \/ OpenSummaryLog(r) \/ DumpSummaryLog(r)

Next ==
    \/ Launch
    \/ \E r \in Runs :
         \/ Enumerate(r)
         \/ Submit(r)
         \/ Worker(r)
         \/ CollectConsole(r)
         \/ Abort(r)
         \/ Reporter(r)

NextRerun ==
    \/ Next
    \/ \E r \in Runs : Relaunch(r)

NextGui ==
    \/ select_input_directory
    \/ select_output_directory
    \/ \E r \in Runs :
         \/ start_processing(r)
         \/ Enumerate(r)
         \/ Submit(r)
         \/ Worker(r)
         \/ CollectGui(r)
         \/ Abort(r)
         \/ Reporter(r)

Spec == Init /\ [][Next]_vars

SpecRerun == Init /\ [][NextRerun]_vars

SpecGui == InitGui /\ [][NextGui]_vars

\* One console process, with the time that passes while it runs.
NextTimed == Next \/ Tick

\* A machine with one processing unit, an empty output directory outside
\* the input directory.
InitTimed ==
    /\ Init
    /\ cpu_count = 1
    /\ ~outInside
    /\ DOMAIN outTree = {}

SpecTimed == InitTimed /\ [][NextTimed]_vars

\* audiomp3.py is not running.
TranscodeOff ==
    /\ clock = 0
    /\ gui = FALSE
    /\ dirs = [input |-> FALSE, output |-> FALSE]
    /\ outInside = FALSE
    /\ inTree = {}
    /\ outTree = [p \in {} |-> Content(0, p)]
    /\ timestamp = [r \in Runs |-> NoTimestamp]
    /\ pc = [r \in Runs |-> "off"]
    /\ all_files = [r \in Runs |-> {}]
    /\ task = [r \in Runs |-> [f \in {} |-> Queued]]
    /\ all_results = [r \in Runs |-> NoResults]
    /\ errores = [r \in Runs |-> <<>>]
    /\ n = [r \in Runs |-> 0]
    /\ logs = [p \in {} |-> <<>>]
    /\ start_time = [r \in Runs |-> NoTimestamp]
    /\ pbar = [r \in Runs |-> None]
    /\ elapsed_total = [r \in Runs |-> NoTimestamp]

\* audioanalysis.py has been started on a music directory, with or without
\* --usar_ia; main has called main_script (lines 346-357).
InitMeta ==
    /\ TranscodeOff
    /\ cpu_count \in CpuCounts
    /\ mutagen \in BOOLEAN
    /\ music_dir \in MusicDirs
    /\ mpc = "start"
    /\ args \in [usar_ia : BOOLEAN]
    /\ usar_ia = args.usar_ia
    /\ client = None
    /\ files = <<>>
    /\ imap = <<>>
    /\ results = <<>>
    /\ summary = None
    /\ response = [calls |-> 0, value |-> None]
    /\ written = [p \in {} |-> None]
    /\ call = None

PoolProcess == \E i \in DOMAIN imap : StartTask(i) \/ EndTask(i)

NextMeta ==
    \/ Setup
    \/ Walk
    \/ CreatePool
    \/ PoolProcess
    \/ NextResult
    \/ FilterNone
    \/ Analyze
    \/ Enrich
    \/ WriteSummary
    \/ WriteOutput

SpecMeta == InitMeta /\ [][NextMeta]_vars

\* Either program, started once.
InitPipelines == Init \/ InitMeta

NextPipelines == Next \/ NextMeta

SpecPipelines == InitPipelines /\ [][NextPipelines]_vars

\* get_audio_metadata is about to normalise a tag text.
InitNormalize ==
    /\ TranscodeOff
    /\ cpu_count = Undetectable
    /\ MainScriptOff
    /\ call \in {[fn |-> "normalize_number_field", field |-> f,
                   returned |-> FALSE, ret |-> <<>>] : f \in Fields}

SpecNormalize == InitNormalize /\ [][CallNormalize]_vars

\* get_audio_metadata is about to read the duration and bitrate of a file.
InitDuration ==
    /\ TranscodeOff
    /\ cpu_count = Undetectable
    /\ MainScriptOff
    /\ call \in {[fn |-> "get_duration_and_bitrate", info |-> i, file_size |-> s,
                   returned |-> FALSE, ret |-> [duration |-> Zero, bitrate |-> 0]] :
                   i \in Infos, s \in Sizes}

SpecDuration == InitDuration /\ [][CallDuration]_vars

\* main_script is about to analyse a record list.
InitAnalyze ==
    /\ TranscodeOff
    /\ cpu_count = Undetectable
    /\ MainScriptOff
    /\ call \in {[fn |-> "analyze_library", metadata_list |-> l,
                   elapsed_time |-> Zero, returned |-> FALSE, ret |-> None] :
                   l \in MetadataLists}

SpecAnalyze == InitAnalyze /\ [][CallAnalyze]_vars

\* ------------------------------------------------------------- claims
Tasks(r) == DOMAIN task[r]

HasOutcome(r, f) == task[r][f].st \in {"done", "got"} /\ ~task[r][f].exc

\* The run has gone through its pool (it found files) and has ended.
RanAndEnded(r) == pc[r] \in {"done", "crashed"}

\* Every call of convert_or_copy of the run returned an outcome.
NoTaskRaised(r) == \A f \in Tasks(r) : ~task[r][f].exc

\* C1: when a run over a non-empty file set has ended, the number of
\* outcomes the aggregator has recorded equals the number of enumerated
\* files (stated for the runs in which every task returned an outcome).
C1_OneOutcomePerItem ==
    \A r \in Runs :
        (RanAndEnded(r) /\ NoTaskRaised(r)) =>
            total_tracks(r) = Cardinality(all_files[r])

Succeeded(r, f) == HasOutcome(r, f) /\ task[r][f].status \in {"converted", "copied"}

\* C2: when a run has completed and the next run over the same directories
\* has ended, that next run has completed too (reports written), every item
\* that succeeded in the first is skipped or a no-op copy in the second, and
\* its destination still holds what it held (stated for the second runs in
\* which every task returned an outcome).
C2_Idempotent ==
    \A r \in Runs :
        (/\ r > 1
         /\ pc[r - 1] = "done"
         /\ pc[r] \in {"done", "crashed", "nofiles"}
         /\ NoTaskRaised(r)) =>
            /\ pc[r] = "done"
            /\ \A f \in Tasks(r - 1) :
                 Succeeded(r - 1, f) =>
                     /\ f \in Tasks(r)
                     /\ HasOutcome(r, f)
                     /\ task[r][f].status \in {"skipped", "copied"}
                     /\ ~task[r][f].wrote
                     /\ outTree[OutFile(f)].by # r

\* C3: no call of convert_or_copy ends with an exception: every future that
\* is done holds an outcome, and an error outcome carries the source path
\* and a message.
C3_NoExceptionEscapes ==
    \A r \in Runs : \A f \in Tasks(r) :
        /\ ~task[r][f].exc
        /\ task[r][f].status = "error" =>
               task[r][f].path = f /\ task[r][f].msg # <<>>

\* C4: the transform tool is never invoked on a destination that exists:
\* every step that runs ffmpeg for an item starts in a state where the
\* item's destination does not exist.
C4_NeverOverwrites ==
    [][\A r \in Runs : \A f \in Tasks(r) :
          (task[r][f].st = "ffmpeg" /\ task'[r][f].st = "done") =>
              ~Exists(OutFile(f))]_vars

Failed(r, f) ==
    task[r][f].st \in {"done", "got"} /\ (task[r][f].exc \/ task[r][f].status = "error")

\* C5: when a run in which exactly one item failed has ended, it has
\* completed (both reports written), every item has an outcome that the
\* driver has taken, and the error report holds exactly one entry, for the
\* failed item.
C5_FailureIsolated ==
    \A r \in Runs :
        (RanAndEnded(r) /\ Cardinality({f \in Tasks(r) : Failed(r, f)}) = 1) =>
            /\ pc[r] = "done"
            /\ \A f \in Tasks(r) : HasOutcome(r, f) /\ task[r][f].st = "got"
            /\ ERROR_LOG(r) \in DOMAIN logs
            /\ SUMMARY_LOG(r) \in DOMAIN logs
            /\ Len(logs[ERROR_LOG(r)].data) = 1
            /\ \A f \in Tasks(r) :
                 Failed(r, f) => logs[ERROR_LOG(r)].data[1].file = Name(f)

Reporting(r) == pc[r] \in {"errlog", "sumlog_closed", "sumlog", "done"}

\* C6, as a state predicate: no task exists before the enumeration is
\* complete, the tasks are exactly the enumerated files, and a run that is
\* writing or has written a report has no unfinished task.
C6_Order ==
    \A r \in Runs :
        /\ pc[r] \in {"idle", "enum", "submit", "nofiles"} => Tasks(r) = {}
        /\ pc[r] \in {"collect", "abort", "crashed"} \cup {"errlog", "sumlog_closed", "sumlog", "done"}
               => Tasks(r) = all_files[r]
        /\ (Reporting(r) \/ \E p \in DOMAIN logs : logs[p].by = r) =>
               \A f \in Tasks(r) : task[r][f].st \in {"done", "got"}

\* C6, as a step property: once enumerated, the work set of a run never
\* changes, whatever happens to the input tree.
C6_WorkSetFixed ==
    \A r \in Runs :
        pc[r] \notin {"idle", "enum"} => all_files'[r] = all_files[r]

\* C6: enumeration completes before any task is submitted, the work set does
\* not change during the run (also when the output tree lies inside the
\* input tree), and every task has completed before a report file is
\* written.
C6_StrictOrdering == [](C6_Order) /\ [][C6_WorkSetFixed]_vars

\* C6 witness: a completed run with output_dir inside input_dir, whose
\* outputs changed the input tree after the enumeration.
C6_Witness ==
    \E r \in Runs :
        /\ pc[r] = "done"
        /\ outInside
        /\ inTree # all_files[r]
        /\ \E f \in Tasks(r) : task[r][f].wrote

\* The runs that have path p open for writing.
Writers(p) ==
    {r \in Runs : \/ pc[r] = "errlog" /\ ERROR_LOG(r) = p
                  \/ pc[r] = "sumlog" /\ SUMMARY_LOG(r) = p}

\* C7: at no time do two writers have the same report file open.
C7_SingleWriter ==
    \A p \in DOMAIN logs : Cardinality(Writers(p)) <= 1

\* C8: any two runs that write reports write them to distinct paths.
C8_DistinctReportPaths ==
    \A r1, r2 \in Runs :
        (r1 # r2 /\ Reporting(r1) /\ Reporting(r2)) =>
            /\ ERROR_LOG(r1) # ERROR_LOG(r2)
            /\ SUMMARY_LOG(r1) # SUMMARY_LOG(r2)

\* C9: the outcome of a file whose lower-cased suffix is in AUDIO_FORMATS is
\* converted, skipped or error, never copied; the outcome of any other file
\* is never converted nor skipped.
C9_PureByExtension ==
    \A r \in Runs : \A f \in Tasks(r) :
        HasOutcome(r, f) =>
            IF Lower(f.suffix) \in {FLAC, WAV, OGG, M4A}
            THEN task[r][f].status \in {"converted", "skipped", "error"}
            ELSE task[r][f].status \in {"copied", "error"}

\* C9 witness: a file with an upper-case transformable suffix was converted
\* or skipped while a destination already existed in the output tree.
C9_Witness ==
    \E r \in Runs : \E f \in Tasks(r) :
        /\ HasOutcome(r, f)
        /\ f.suffix = WAV_UPPER
        /\ task[r][f].status \in {"converted", "skipped"}
        /\ \E p \in DOMAIN outTree : outTree[p].by = 0

ToolRan(r, f) == HasOutcome(r, f) /\ task[r][f].tool.invoked

\* C10 as stated: an item on which the tool was called is converted exactly
\* when the tool exited with status zero and wrote no error-level text.
C10_ConvertedIffNoErrorLevelText ==
    \A r \in Runs : \A f \in Tasks(r) :
        ToolRan(r, f) =>
            (task[r][f].status = "converted" <=>
                (/\ task[r][f].tool.found
                 /\ task[r][f].tool.returncode = 0
                 /\ ~task[r][f].tool.errorLevel))

\* No driver has left its loop because of an error outcome: a driver that
\* was aborted took a future holding an exception or a skipped outcome.
ErrorNotFatal ==
    \A r \in Runs :
        pc[r] \in {"abort", "crashed"} =>
            \E f \in Tasks(r) :
                task[r][f].st = "got" /\ (task[r][f].exc \/ task[r][f].status = "skipped")

\* C10 amended: an item on which the tool was called is converted exactly
\* when the tool ran, exited with status zero and its diagnostic stream,
\* lower-cased, does not contain "error"; otherwise its outcome is error with
\* the source path and the diagnostic text (the exception's text when the
\* tool could not be started), and that outcome does not abort the run.
C10_ConvertedIffNoErrorWord ==
    /\ \A r \in Runs : \A f \in Tasks(r) :
         ToolRan(r, f) =>
            LET t == task[r][f]
                clean == /\ t.tool.found
                         /\ t.tool.returncode = 0
                         /\ ~Contains(<<"e","r","r","o","r">>, Lower(t.tool.stderr))
            IN  /\ t.status = "converted" <=> clean
                /\ ~clean =>
                     /\ t.status = "error"
                     /\ t.path = f
                     /\ t.msg = IF t.tool.found THEN t.tool.stderr ELSE ENOENT
    /\ ErrorNotFatal

\* C10 witness: a completed run in which the tool exited with status zero
\* and no error-level text, and the item is an error because an
\* informational line held the word.
C10_Witness ==
    \E r \in Runs : \E f \in Tasks(r) :
        /\ pc[r] = "done"
        /\ ToolRan(r, f)
        /\ task[r][f].tool.returncode = 0
        /\ ~task[r][f].tool.errorLevel
        /\ task[r][f].status = "error"

\* C11: once every item of a run is resolved (every task returned an outcome
\* and the run has ended), the summary report of the run exists and its
\* total_files_processed is the number of enumerated items, whatever their
\* outcome category.
C11_TotalCountsEveryItem ==
    \A r \in Runs :
        (RanAndEnded(r) /\ NoTaskRaised(r)) =>
            /\ SUMMARY_LOG(r) \in DOMAIN logs
            /\ logs[SUMMARY_LOG(r)].closed
            /\ logs[SUMMARY_LOG(r)].data.total_files_processed
                   = Cardinality(all_files[r])

\* C12: the completed count of a run never exceeds the number of enumerated
\* items, and a run over a non-empty work set that has ended has reached
\* Done: its completed count equals that number (stated for the runs in
\* which every task returned an outcome).
C12_ProgressReachesDone ==
    \A r \in Runs :
        /\ 0 <= n[r] /\ n[r] <= Cardinality(all_files[r])
        /\ (RanAndEnded(r) /\ NoTaskRaised(r)) =>
               n[r] = Cardinality(all_files[r])

\* The worker count the claim names: the number of processing units, 2 when
\* it cannot be detected.
WorkerBound == IF cpu_count = Undetectable THEN 2 ELSE cpu_count

\* main_script of audioanalysis.py has passed the line that builds the pool.
PastPool ==
    mpc \in {"raised_cpu_count", "imap", "analyze", "ia", "summary_file",
             "output_file", "done"}

\* C13: in either pipeline the dispatcher holds exactly one task per work
\* item, at most WorkerBound tasks execute at any moment, and results are
\* consumed in completion order: whenever a result of the metadata pool is
\* complete the consumer has a result to take, whatever the position of its
\* file in the submission order.
C13_BoundedCompletionOrder ==
    /\ \A r \in Runs :
         /\ pc[r] \in {"collect", "abort", "crashed"} \cup {"errlog", "sumlog_closed", "sumlog", "done"}
               => Tasks(r) = all_files[r]
         /\ Cardinality(Running(r)) <= WorkerBound
    /\ PastPool => DOMAIN imap = DOMAIN files
    /\ Cardinality(Busy) <= WorkerBound
    /\ (mpc = "imap" /\ \E i \in DOMAIN imap : imap[i] = "done") => NextTask # {}

\* The enumeration of run r is complete.
Enumerated(r) == pc[r] \notin {"off", "idle", "enum"}

\* The walk of audioanalysis.main_script is complete.
WalkDone ==
    mpc \in {"pool", "raised_cpu_count", "imap", "analyze", "ia", "summary_file",
             "output_file", "done"}

ReportsOf(r) == {p \in DOMAIN logs : logs[p].by = r}

\* C14, the transcode pipeline: with an empty work set the run ends at the
\* "no files found" message: no task, no report.
C14_Transcode ==
    \A r \in Runs :
        (Enumerated(r) /\ all_files[r] = {}) =>
            pc[r] = "nofiles" /\ Tasks(r) = {} /\ ReportsOf(r) = {}

\* C14 as stated: in either pipeline an empty work set short-circuits the
\* run: no pool is constructed, no task is submitted, no report is written.
C14_EmptyShortCircuits ==
    /\ C14_Transcode
    /\ (WalkDone /\ files = <<>>) =>
           mpc = "pool" /\ imap = <<>> /\ DOMAIN written = {}

\* C14: an empty work set short-circuits the transcode pipeline; the
\* metadata pipeline goes on through the pool, to which it submits no
\* task, and when it completes it has written both reports: no record, and
\* a summary of zero files.
C14_EmptyShortCircuitsTranscode ==
    /\ C14_Transcode
    /\ (WalkDone /\ files = <<>>) =>
           /\ imap = <<>>
           /\ mpc = "done" =>
                  /\ {"summary_file", "output_file"} \subseteq DOMAIN written
                  /\ written.output_file = <<>>
                  /\ written.summary_file.archivos_analizados = 0

\* C14 witness: the metadata run over a directory that holds files, none of
\* them audio, has completed.
C14_Witness == mpc = "done" /\ files = <<>> /\ music_dir # <<>>

\* A call of normalize_number_field has returned.
Normalized == call # None /\ call.fn = "normalize_number_field" /\ call.returned

\* A non-empty text made of the characters of the set digits.
AllIn(s, digits) == Len(s) > 0 /\ \A i \in 1..Len(s) : s[i] \in digits

\* s is one text of digits, or two of them joined by one "/".
NumberField(s, digits) ==
    \/ AllIn(s, digits)
    \/ \E i \in 1..Len(s) :
          /\ s[i] = "/"
          /\ AllIn(SubSeq(s, 1, i - 1), digits)
          /\ AllIn(SubSeq(s, i + 1, Len(s)), digits)

\* C15 as stated: the normalized value is the input when the input is a
\* plain integer string (ASCII digits) or two of them joined by "/", and
\* the empty text for every other input.
C15_PlainIntegerOrPair ==
    Normalized =>
        call.ret = IF NumberField(call.field, ASCII_DIGITS) THEN call.field ELSE <<>>

\* C15: the normalized value is the input when the input is a non-empty
\* text of characters for which str.isdigit() holds (the ASCII digits and
\* the other digit characters, such as the superscript two), or two such
\* texts joined by one "/", and the empty text for every other input.
C15_IsdigitOrPair ==
    Normalized =>
        call.ret = IF NumberField(call.field, ASCII_DIGITS \cup {SUPERSCRIPT_TWO})
                   THEN call.field
                   ELSE <<>>

\* C15 witness: a text with two "/" between digits was normalized to the
\* empty text.
C15_Witness ==
    /\ Normalized
    /\ call.field = <<"1", "/", "0", "/", "1">>
    /\ call.ret = <<>>

\* A call of get_duration_and_bitrate has returned.
Measured == call # None /\ call.fn = "get_duration_and_bitrate" /\ call.returned

\* What the stream information gives directly: the length in seconds and
\* the bitrate in kbps, zero when it has none.
DirectDuration == IF "length" \in DOMAIN call.info THEN call.info.length ELSE Zero
DirectBitrate == IF "bitrate" \in DOMAIN call.info THEN call.info.bitrate \div 1000 ELSE 0

\* C16: for a file that has stream information and a readable size: when
\* the duration and the bitrate (kbps) are both directly available they
\* are returned unchanged; when exactly one is zero the other is returned
\* unchanged and the missing one is the value given by
\* size * 8 = bitrate * 1000 * duration (the bitrate cut to whole kbps);
\* when both are zero the bitrate is exactly 192 and the duration is
\* size * 8 / (192 * 1000).
C16_ThreeTierFallback ==
    (Measured /\ call.info # None /\ call.file_size # OSError) =>
        LET d == DirectDuration
            b == DirectBitrate
            bits == call.file_size * 8
            out == call.ret
        IN /\ (d.num > 0 /\ b > 0) => out = [duration |-> d, bitrate |-> b]
           /\ (d.num > 0 /\ b = 0) =>
                  /\ out.duration = d
                  /\ out.bitrate * 1000 * d.num <= bits * d.den
                  /\ bits * d.den < (out.bitrate + 1) * 1000 * d.num
           /\ (d.num = 0 /\ b > 0) =>
                  /\ out.bitrate = b
                  /\ bits * out.duration.den = b * 1000 * out.duration.num
           /\ (d.num = 0 /\ b = 0) =>
                  /\ out.bitrate = 192
                  /\ bits * out.duration.den = 192 * 1000 * out.duration.num

\* C16 witness: a file of 12500 bytes whose stream information has neither
\* length nor bitrate got 192 kbps and 25/48 of a second.
C16_Witness ==
    /\ Measured
    /\ call.info # None
    /\ DirectDuration = Zero /\ DirectBitrate = 0
    /\ call.file_size = 12500
    /\ call.ret = [duration |-> [num |-> 25, den |-> 48], bitrate |-> 192]

\* The records of the run that have a bitrate.
WithBitrate == SelectSeq(results, Positive)

\* C17: the average bitrate of the library summary is the sum of the
\* positive bitrates divided by the number of records whose bitrate is
\* positive (rounded to one decimal; 0 when there is none): a record whose
\* bitrate is 0 does not lower it.
C17_AverageOverPositive ==
    summary # None =>
        summary.bitrate_promedio_kbps =
            Round(IF WithBitrate # <<>>
                  THEN Rat(SumOver(WithBitrate, "bitrate"), Len(WithBitrate))
                  ELSE Zero, 1)

\* The positions in files of the files mutagen reads.
ReadableAt == {k \in DOMAIN files : mutagen /\ files[k].opens = "ok"}

\* results has been filtered.
Filtered == mpc \in {"analyze", "ia", "summary_file", "output_file", "done"}

\* C18: a file that cannot be opened, in which no container is recognised
\* or whose parser raises yields no record and does not end the run: the
\* run ends by an exception only before the first file is read; once
\* filtered, results holds exactly one record for every other file and
\* none for such a file; the analysed-file count of the summary and the
\* metadata report count and hold exactly those records.
C18_FailedFileYieldsNoRecord ==
    /\ mpc \in {"returned", "raised_client", "raised_cpu_count"} => imap = <<>>
    /\ Filtered =>
         /\ Len(results) = Cardinality(ReadableAt)
         /\ \A k \in DOMAIN files :
              Cardinality({j \in DOMAIN results : results[j].path = files[k].path})
                  = IF k \in ReadableAt THEN 1 ELSE 0
         /\ summary # None => summary.archivos_analizados = Cardinality(ReadableAt)
         /\ mpc = "done" => written.output_file = results

\* C18 witness: a completed run over a file whose parser raised and a file
\* that was read: one record.
C18_Witness ==
    /\ mpc = "done"
    /\ Len(results) = 1
    /\ \E i, j \in DOMAIN files :
         files[i].opens = "raise" /\ files[j].opens = "ok"

\* The enrichment request returned an analysis: a text that is not empty.
GotAnalysis ==
    /\ "text" \in DOMAIN response.value
    /\ response.value.text # <<>>
    /\ response.value.text[1] # <<>>

\* C19: in a run started with --usar_ia no failure of the enrichment ends
\* the run by an exception; unless the request returned an analysis, the
\* enrichment field of the summary holds a placeholder text; and the
\* completed run has written the summary and the metadata report.
C19_EnrichmentBestEffort ==
    args.usar_ia =>
        /\ mpc # "raised_client"
        /\ mpc \in {"summary_file", "output_file", "done"} =>
               /\ "analisis_ia" \in DOMAIN summary
               /\ IF GotAnalysis
                  THEN summary.analisis_ia = response.value.text[1]
                  ELSE summary.analisis_ia \in {SIN_RESPUESTA_ERROR, SIN_RESPUESTA}
        /\ mpc = "done" =>
               /\ {"summary_file", "output_file"} \subseteq DOMAIN written
               /\ written.summary_file = summary

\* The summary without its enrichment field.
Statistics == [f \in DOMAIN summary \ {"analisis_ia"} |-> summary[f]]

\* What get_audio_metadata gives for the files of the run, in their order.
Extracted == [k \in DOMAIN files |-> get_audio_metadata(mutagen, files[k])]

\* C20: at most one enrichment request is made in a run, and whatever it
\* does, and whether or not enrichment is enabled, the summary without its
\* enrichment field is what analyze_library gives for the record list and
\* the elapsed time, in memory and in the summary report, and the metadata
\* report is the list of the records extracted from the files.
C20_EnrichmentFramed ==
    /\ response.calls <= 1
    /\ summary # None =>
         /\ \E elapsed_time \in ElapsedTimes :
              Statistics = analyze_library(results, elapsed_time)
         /\ "summary_file" \in DOMAIN written =>
                written.summary_file = summary
    /\ mpc = "done" =>
         /\ written.output_file = results
         /\ results = SelectSeq(Extracted, NotNone)

\* C20 witness: a completed run with a record in which the one request
\* returned an analysis, now in the summary.
C20_Witness ==
    /\ mpc = "done"
    /\ response.calls = 1
    /\ GotAnalysis
    /\ written.summary_file.analisis_ia = response.value.text[1]
    /\ Len(results) >= 1

\* The bar of run r has been updated after a completion.
Updated(r) == pbar[r] # None

\* The summary report of run r has been written and closed.
SummaryWritten(r) ==
    /\ SUMMARY_LOG(r) \in DOMAIN logs
    /\ logs[SUMMARY_LOG(r)].by = r
    /\ logs[SUMMARY_LOG(r)].closed

\* x is the fraction a / b rounded to two decimals: within half a hundredth.
RoundedQuotient(x, a, b) ==
    /\ 2 * (x.num * 100 * b - a * 100 * x.den) <= x.den * b
    /\ 2 * (a * 100 * x.den - x.num * 100 * b) <= x.den * b
    /\ x.den \in {1, 2, 4, 5, 10, 20, 25, 50, 100}

\* C21: no progress update and no summary raises a division fault: after
\* every completion the driver handles, throughput times elapsed is the
\* completed count when elapsed is positive and throughput is 0 when
\* elapsed is 0; ETA times throughput is (total - completed) when
\* throughput is positive and ETA is 0 when throughput is 0; the average
\* speed of a written summary is total / elapsed_total to two decimals
\* when elapsed_total is positive and 0 when it is 0.
C21_NoDivisionFault ==
    \A r \in Runs :
        /\ Updated(r) =>
              /\ pbar[r] # ZeroDivisionError
              /\ pbar[r].elapsed >= 0
              /\ pbar[r].speed.den > 0 /\ pbar[r].eta.den > 0
              /\ pbar[r].elapsed > 0 =>
                     pbar[r].speed.num * pbar[r].elapsed = n[r] * pbar[r].speed.den
              /\ pbar[r].elapsed = 0 => pbar[r].speed.num = 0
              /\ pbar[r].speed.num > 0 =>
                     pbar[r].eta.num * pbar[r].speed.num =
                         (Cardinality(all_files[r]) - n[r])
                             * pbar[r].eta.den * pbar[r].speed.den
              /\ pbar[r].speed.num = 0 => pbar[r].eta.num = 0
        /\ SummaryWritten(r) =>
              /\ logs[SUMMARY_LOG(r)].data # <<>>
              /\ LET avg == logs[SUMMARY_LOG(r)].data.average_speed_tracks_per_sec
                     total == logs[SUMMARY_LOG(r)].data.total_files_processed
                 IN /\ avg # ZeroDivisionError
                    /\ elapsed_total[r] = 0 => avg.num = 0
                    /\ elapsed_total[r] > 0 =>
                           RoundedQuotient(avg, total, elapsed_total[r])
        /\ pc[r] \in {"abort", "crashed"} =>
              \E f \in Tasks(r) :
                  task[r][f].st = "got" /\ (task[r][f].exc \/ task[r][f].status = "skipped")

\* C21 witness: a completed run whose last progress update came with no
\* time elapsed (throughput 0, ETA 0) and whose summary, written a second
\* later, holds a positive average speed.
C21_Witness ==
    \E r \in Runs :
        /\ pc[r] = "done"
        /\ Updated(r)
        /\ pbar[r].elapsed = 0 /\ pbar[r].speed = Zero /\ pbar[r].eta = Zero
        /\ elapsed_total[r] > 0
        /\ logs[SUMMARY_LOG(r)].data.average_speed_tracks_per_sec.num > 0

\* A call of analyze_library has returned.
Analyzed == call # None /\ call.fn = "analyze_library" /\ call.returned

\* The positions of the record list whose record has the genre g.
Occurrences(g) ==
    {i \in DOMAIN call.metadata_list : call.metadata_list[i].genre = g}

\* The position of the first record with the genre g.
FirstOccurrence(g) == CHOOSE i \in Occurrences(g) : \A j \in Occurrences(g) : i <= j

\* The genres of the record list.
GenresMet == {call.metadata_list[i].genre : i \in DOMAIN call.metadata_list} \ {<<>>}

\* C22: the predominant genre of the summary is the empty text when no
\* record has a genre; otherwise it is a genre of the list whose number of
\* occurrences is maximal, and every other genre with as many occurrences
\* is first met later in the record list.
C22_PredominantGenre ==
    Analyzed =>
        LET g == call.ret.genero_predominante
        IN IF GenresMet = {} THEN g = <<>>
           ELSE /\ g \in GenresMet
                /\ \A h \in GenresMet :
                     /\ Cardinality(Occurrences(h)) <= Cardinality(Occurrences(g))
                     /\ (h # g /\ Cardinality(Occurrences(h)) = Cardinality(Occurrences(g)))
                            => FirstOccurrence(g) < FirstOccurrence(h)

\* C22 witness: for the genres Pop, Rock, Rock, Pop the tie goes to Pop,
\* met first.
C22_Witness ==
    /\ Analyzed
    /\ [i \in DOMAIN call.metadata_list |-> call.metadata_list[i].genre]
           = <<POP, ROCK, ROCK, POP>>
    /\ call.ret.genero_predominante = POP

\* Run r has written and closed both of its reports.
ReportsWritten(r) ==
    /\ SummaryWritten(r)
    /\ ERROR_LOG(r) \in DOMAIN logs
    /\ logs[ERROR_LOG(r)].by = r
    /\ logs[ERROR_LOG(r)].closed

\* The fields of the summary report the two front ends must agree on.
SharedFields == {"converted", "copied", "failed", "total_files_processed"}

\* C23: a WorkerThread run that has completed has persisted what
\* main_script persists for the same work set and the same outcomes, taken
\* in some completion order: the same error report, and a summary report
\* with the same converted, copied and failed lists and the same
\* total_files_processed (stated for the outcomes main_script aggregates
\* without raising).
C23_GuiPersistsConsoleReports ==
    \A r \in Runs :
        (gui /\ pc[r] = "done" /\ ReportsWritten(r)) =>
            \E o \in CompletionOrders(r) :
                ConsoleResults(r, o) # KeyError =>
                    /\ logs[ERROR_LOG(r)].data = ConsoleResults(r, o).error
                    /\ \A k \in SharedFields :
                         /\ k \in DOMAIN logs[SUMMARY_LOG(r)].data
                         /\ logs[SUMMARY_LOG(r)].data[k]
                                = ConsoleSummary(ConsoleResults(r, o))[k]

\* The items of run r whose Error outcome the driver has taken.
ErrorOutcomes(r) ==
    {f \in Tasks(r) :
        task[r][f].st = "got" /\ ~task[r][f].exc /\ task[r][f].status = "error"}

\* The entry the claim gives for the Error outcome of item f: the file
\* name (last component and suffix) and the message.
EntryOf(r, f) ==
    [file |-> [stem |-> <<f.stem[Len(f.stem)]>>, suffix |-> f.suffix],
     error |-> task[r][f].msg]

\* C24: at every moment of a run the error collection and the failed list
\* of the summary are the same list; it holds one entry {file, error} for
\* each Error outcome taken so far and nothing else; and once the run has
\* written its two reports, the error report is that list and equals the
\* failed list of the summary report.
C24_ErrorCollectionIsFailedList ==
    \A r \in Runs :
        /\ errores[r] = Summary(r).failed
        /\ Len(errores[r]) = Cardinality(ErrorOutcomes(r))
        /\ \A f \in ErrorOutcomes(r) :
             \E i \in DOMAIN errores[r] : errores[r][i] = EntryOf(r, f)
        /\ \A i \in DOMAIN errores[r] :
             \E f \in ErrorOutcomes(r) : errores[r][i] = EntryOf(r, f)
        /\ ReportsWritten(r) =>
              /\ logs[ERROR_LOG(r)].data = errores[r]
              /\ logs[ERROR_LOG(r)].data = logs[SUMMARY_LOG(r)].data.failed

\* C24 witness: a completed run with one Error outcome and one other
\* outcome, both reports written.
C24_Witness ==
    \E r \in Runs :
        /\ pc[r] = "done"
        /\ ReportsWritten(r)
        /\ Cardinality(ErrorOutcomes(r)) = 1
        /\ Cardinality(Tasks(r)) = 2
        /\ logs[SUMMARY_LOG(r)].data.failed = <<EntryOf(r, CHOOSE f \in ErrorOutcomes(r) : TRUE)>>

\* The file at path p was written by the transform tool in a run before
\* run r, and that run completed.
WrittenByTool(r, p) ==
    /\ outTree[p].by \in 1..(r - 1)
    /\ pc[outTree[p].by] = "done"
    /\ task[outTree[p].by][outTree[p].src].tool.invoked

\* C25: whenever a transformable item is resolved as skipped in a run, the
\* destination file that makes it so, if the transform tool wrote it in an
\* earlier, completed run, is the output of a conversion that succeeded:
\* no conversion that ended in error leaves a file that makes a later run
\* skip the item.
C25_SkippedOnlyAfterConversion ==
    [][\A r \in Runs : \A f \in Tasks(r) :
          (task[r][f].st = "queued" /\ task'[r][f].status = "skipped") =>
              (WrittenByTool(r, OutFile(f)) =>
                  task[outTree[OutFile(f)].by][outTree[OutFile(f)].src].status
                      = "converted")]_vars

\* C26: analyze_library never ends the run by a division fault; once the
\* run has its record list and the list is empty (no audio file, or none
\* that could be read), the run is never stuck before its end, the summary
\* holds file count 0, average bitrate 0, average duration 0, no artist,
\* no album artist, no album, "0 minutos" of listening and the empty
\* predominant genre, and the completed run has written that summary and
\* the empty metadata report.
C26_EmptyLibraryCompletes ==
    /\ mpc # "raised_division"
    /\ (Filtered /\ results = <<>>) =>
         /\ mpc # "done" => ENABLED NextMeta
         /\ mpc # "analyze" => summary # None
         /\ summary # None =>
              /\ summary.archivos_analizados = 0
              /\ summary.bitrate_promedio_kbps = [num |-> 0, den |-> 1]
              /\ summary.duracion_promedio_segundos = [num |-> 0, den |-> 1]
              /\ summary.duracion_promedio_formateada = <<0, 0>>
              /\ summary.artistas_unicos = 0
              /\ summary.album_artistas_unicos = 0
              /\ summary.albumes_unicos = 0
              /\ summary.tiempo_total_escucha = <<[n |-> 0, unit |-> "minutos"]>>
              /\ summary.genero_predominante = <<>>
         /\ mpc = "done" =>
              /\ {"summary_file", "output_file"} \subseteq DOMAIN written
              /\ written.summary_file = summary
              /\ written.output_file = <<>>

\* C26 witness: a completed run over a directory whose audio files all
\* failed to be read: no record, both reports written.
C26_Witness ==
    /\ mpc = "done"
    /\ files # <<>>
    /\ results = <<>>
    /\ written.summary_file.archivos_analizados = 0
    /\ written.output_file = <<>>
====
